---- MODULE Spec2Model ----
(***************************************************************************)
(* Model of the diagnostic rule engine of mental-instability-bot:          *)
(* src/src/log_checking/checks.rs (check_checks and its nine rules).       *)
(*                                                                         *)
(* A log text is a sequence of lines (the text is the lines joined by      *)
(* "\n"; a text that ends in a newline has an empty last line).  A line is *)
(* a sequence of symbols: chunks of characters whose concatenation is the  *)
(* line.  The only symbol that holds whitespace is " ".  Texts are chunked *)
(* so that a pattern's literal text always falls on symbol boundaries.     *)
(***************************************************************************)
EXTENDS Integers, Sequences, FiniteSets, TLC

VARIABLES
  log,      \* the text given to check_checks
  ctx,      \* the EnvironmentContext given to check_checks
  pc,       \* "running", "done" (returned) or "panicked" (unwound)
  iter,     \* the position of the iterator over the catalogue
  reports,  \* the reports collected so far; the returned Vec once done
  calls     \* the rules invoked so far, in order

vars == <<log, ctx, pc, iter, reports, calls>>

(***************************************************************************)
(* Option<T>: None is the empty sequence, Some(x) the one-element one.     *)
(***************************************************************************)
None == <<>>

Some(x) == <<x>>

Max(S) == CHOOSE n \in S : \A m \in S : m <= n

Min(S) == CHOOSE n \in S : \A m \in S : n <= m

Range(s) == {s[i] : i \in DOMAIN s}

\* words joined by single spaces
W(ws) == [i \in 1..(2 * Len(ws) - 1) |-> IF i % 2 = 1 THEN ws[(i + 1) \div 2] ELSE " "]

\* the grave accent (U+0060), which a TLA+ string cannot hold
Tick == "|"

\* &str of a run of symbols
as_str(syms) ==
  LET str[i \in 0..Len(syms)] == IF i = 0 THEN "" ELSE str[i - 1] \o syms[i]
  IN  str[Len(syms)]

(***************************************************************************)
(* Symbol classes of the regular expressions used by the rules.            *)
(***************************************************************************)
\* symbols made of [0-9] only
DigitSyms == {"8", "17", "21"}

\* symbols made of [A-Za-z0-9_] only
WordSyms ==
  DigitSyms \cup
  {"Mod", "Foo", "foo", "Bar", "Lib", "Baz", "baz", "Qux", "Quux", "quux", "Corge",
   "requires", "any", "version", "of", "which", "is", "between", "and", "or", "later",
   "FooMixin", "BarMixin", "mymod", "othermod", "thirdmod", "onTick", "tick", "from", "mod",
   "main", "Java", "java", "Replace", "with", "optifabric", "OptiFabric", "Sodium", "sodium",
   "boom", "Loading", "mods", "Oops", "Initializing", "game", "DEFAULT", "APPLY"}

InClass(c, sym) ==
  CASE c = "." -> TRUE                      \* any character but "\n"; a line holds none
    [] c = "\\S" -> sym # " "
    [] c = "\\w" -> sym \in WordSyms
    [] c = "[0-9]" -> sym \in DigitSyms

(***************************************************************************)
(* Regular expressions.  An element is a literal run of symbols, a class   *)
(* repeated one or more times (greedy), optionally a capture group, or the *)
(* end of the line (the position before a "\n" of the pattern).            *)
(***************************************************************************)
L(syms) == <<[k |-> "lit", s |-> syms, c |-> "", g |-> 0]>>

P(class) == <<[k |-> "plus", s |-> <<>>, c |-> class, g |-> 0]>>

G(class, group) == <<[k |-> "plus", s |-> <<>>, c |-> class, g |-> group]>>

EOL == <<[k |-> "eol", s |-> <<>>, c |-> "", g |-> 0]>>

NoCaps == <<None, None>>

\* longest run of symbols of class c that starts at pos
RunLen(c, line, pos) ==
  LET stop == {q \in pos..Len(line) : ~InClass(c, line[q])}
  IN  IF stop = {} THEN Len(line) + 1 - pos ELSE Min(stop) - pos

\* the captures of the match of part re that starts at position start of line, if
\* any (leftmost-first: a repetition takes the longest run the rest can follow)
MatchFrom(re, line, start) ==
  LET m[k \in 1..(Len(re) + 1), pos \in 1..(Len(line) + 1)] ==
        IF k > Len(re) THEN Some(NoCaps)
        ELSE LET e == re[k] IN
          CASE e.k = "lit" ->
                 IF /\ pos + Len(e.s) - 1 <= Len(line)
                    /\ \A j \in 1..Len(e.s) : line[pos + j - 1] = e.s[j]
                 THEN m[k + 1, pos + Len(e.s)]
                 ELSE None
            [] e.k = "eol" ->
                 IF pos = Len(line) + 1 THEN m[k + 1, pos] ELSE None
            [] e.k = "plus" ->
                 LET ok == {n \in 1..RunLen(e.c, line, pos) : m[k + 1, pos + n] # None}
                     n == Max(ok)
                     rest == m[k + 1, pos + n][1]
                 IN  IF ok = {} THEN None
                     ELSE IF e.g = 0 THEN Some(rest)
                     ELSE Some([rest EXCEPT ![e.g] = Some(SubSeq(line, pos, pos + n - 1))])
  IN  m[1, start]

\* the part matched at the start of the line
MatchAt(re, line) == MatchFrom(re, line, 1)

\* the leftmost match of the part in the line
MatchFind(re, line) ==
  LET starts == {p \in 1..(Len(line) + 1) : MatchFrom(re, line, p) # None}
  IN  IF starts = {} THEN None ELSE MatchFrom(re, line, Min(starts))

(***************************************************************************)
(* The patterns of checks.rs.  A regex is the sequence of the parts its    *)
(* "\n" separate: a part before a "\n" ends at the end of its line (EOL),  *)
(* a part after a "\n" starts at the start of the next line.               *)
(***************************************************************************)
CrashReportRe ==
  << L(<<"----", " ", "Minecraft", " ", "Crash", " ", "Report", " ", "----">>) \o EOL,
     L(<<"//", " ">>) \o P(".") \o EOL,
     EOL,
     L(<<"Time:", " ">>) \o P(".") \o EOL,
     L(<<"Description:", " ">>) \o G(".", 1) \o EOL,
     EOL,
     G(".", 2) \o EOL,
     <<>> >>

ModHead == L(<<"Mod", " ", "'">>) \o G(".", 1) \o L(<<"'", " ", "(">>) \o P("\\S")
             \o L(<<")", " ">>) \o P("\\S") \o L(<<" ">>)

WhichIsMissing == L(<<",", " ">> \o W(<<"which", "is", "missing!">>))

DepBetweenRe ==
  << ModHead \o L(W(<<"requires", "any", "version", "between">>) \o <<" ">>) \o P("\\S")
       \o L(<<" ", "and", " ">>) \o P("\\S") \o L(<<" ", "of", " ">>) \o G(".", 2)
       \o WhichIsMissing >>

DepOrLaterRe ==
  << ModHead \o L(W(<<"requires", "version">>) \o <<" ">>) \o P("\\S")
       \o L(<<" ">> \o W(<<"or", "later", "of">>) \o <<" ">>) \o G(".", 2)
       \o WhichIsMissing >>

DepAnyRe ==
  << ModHead \o L(W(<<"requires", "any", "version", "of">>) \o <<" ">>) \o G(".", 2)
       \o WhichIsMissing >>

InjectionRe ==
  << L(W(<<"InvalidInjectionException:", "Critical", "injection", "failure:", "@Inject",
           "annotation", "on">>) \o <<" ">>) \o P("\\S")
       \o L(<<" ">> \o W(<<"could", "not", "find", "any", "targets", "matching">>)
              \o <<" ", "'">>) \o P(".")
       \o L(<<"'", " ", "in", " ">>) \o P("\\S")
       \o L(<<".", " ", "Using", " ", "refmap", " ">>) \o P("\\S")
       \o L(<<" ", "[", "PREINJECT", " ", "Applicator", " ", "Phase", " ", "->", " ">>)
       \o P("\\S") \o L(<<":">>) \o G("\\w", 1) \o L(<<" ", "from", " ", "mod", " ">>)
       \o G("\\w", 2) >>

AccessorRe ==
  << L(W(<<"InvalidAccessorException:", "No", "candidates", "were", "found", "matching">>)
         \o <<" ">>) \o P("\\S") \o L(<<" ", "in", " ">>) \o P("\\S")
       \o L(<<" ", "for", " ">>) \o P("\\S") \o L(<<":">>) \o G("\\w", 1)
       \o L(<<" ", "from", " ", "mod", " ">>) \o G("\\w", 2) >>

MixinApplyRe ==
  << L(<<"MixinApplyError:", " ", "Mixin", " ", "[">>) \o P("\\S")
       \o L(<<".mixins.json", ":">>) \o P("\\S") \o L(<<" ", "from", " ", "mod", " ">>)
       \o G("\\S", 1) \o L(<<"]", " ", "from", " ", "phase", " ", "[">>) \o P("\\S")
       \o L(<<"]", " ", "in", " ", "config", " ", "[">>) \o P("\\S")
       \o L(<<".mixins.json", "]", " ", "FAILED", " ", "during", " ">>) \o P("\\S") >>

EntrypointRe ==
  << L(W(<<"RuntimeException:", "Could", "not", "execute", "entrypoint", "stage">>)
         \o <<" ", "'">>) \o P("\\S")
       \o L(<<"'", " ">> \o W(<<"due", "to", "errors,", "provided", "by">>) \o <<" ", "'">>)
       \o G("\\S", 1) \o L(<<"'", "!">>) >>

JavaReplaceRe ==
  << L(<<"-", " ", "Replace", " ", "'">>) \o P(".") \o L(<<"'", " ", "(", "java", ")", " ">>)
       \o G("[0-9]", 1) \o L(<<" ", "with", " ", "version", " ">>) \o G("[0-9]", 2)
       \o L(<<" ", "or", " ", "later", ".">>) >>

ClassVersionRe ==
  << L(<<"UnsupportedClassVersionError:", " ">>) \o P("\\S")
       \o L(<<" ">> \o W(<<"has", "been", "compiled", "by", "a", "more", "recent", "version",
                          "of", "the", "Java", "Runtime">>)
              \o <<" ", "(">> \o W(<<"class", "file", "version">>) \o <<" ">>)
       \o G("\\S", 1)
       \o L(<<")", ",", " ">> \o W(<<"this", "version", "of", "the", "Java", "Runtime", "only",
                                    "recognizes", "class", "file", "versions", "up", "to">>)
              \o <<" ">>)
       \o G("\\S", 2) >>

NoSuchFieldRe == << L(<<"java.lang.NoSuchFieldError">>) >>

OptiIncompatibleRe ==
  << L(<<"Mod", " ", "'">>) \o P(".") \o L(<<"'", " ", "(">>) \o P("\\S") \o L(<<")", " ">>)
       \o P("\\S")
       \o L(<<" ">> \o W(<<"is", "incompatible", "with", "any", "version", "of", "mod">>)
              \o <<" ", "'">>) \o P(".") \o L(<<"'", " ", "(", "optifabric", ")">>) >>

OptiPackageRe == << L(<<"me.modmuss50.optifabric">>) >>

IndiumRe ==
  << L(W(<<"because", "the", "return", "value", "of">>)
         \o <<" ", "\"", "net.fabricmc.fabric.api.renderer.v1.RendererAccess.getRenderer()",
              "\"", " ", "is", " ", "null">>) >>

AllRegexes ==
  {CrashReportRe, DepBetweenRe, DepOrLaterRe, DepAnyRe, InjectionRe, AccessorRe, MixinApplyRe,
   EntrypointRe, JavaReplaceRe, ClassVersionRe, NoSuchFieldRe, OptiIncompatibleRe,
   OptiPackageRe, IndiumRe}

(***************************************************************************)
(* Bounds of the inputs.                                                   *)
(***************************************************************************)
\* a log text is made of at most this many fragments
MaxFragments == 2

\* class-file versions are probed this far on either side of the table
ProbeMargin == 2

\* first and last class-file version of match_java_classfile_version
FirstClassfile == 49

LastClassfile == 65

(***************************************************************************)
(* Log lines.                                                              *)
(***************************************************************************)
Digit(d) == <<"0", "1", "2", "3", "4", "5", "6", "7", "8", "9">>[d + 1]

\* decimal numeral of n
Dec(n) ==
  LET dec[m \in 0..n] == IF m < 10 THEN Digit(m) ELSE dec[m \div 10] \o Digit(m % 10)
  IN  dec[n]

\* the class-file version token of major version n
Classfile(n) == Dec(n) \o ".0"

VersionTokens ==
  {Classfile(n) : n \in (FirstClassfile - ProbeMargin)..(LastClassfile + ProbeMargin)}
    \cup {"61", "61.1", "52.0."}

NoiseLine == W(<<"Loading", "mods">>)

DepLine(dependent, id, version, requirement, dependency) ==
  <<"Mod", " ", "'">> \o dependent \o <<"'", " ", "(", id, ")">> \o version \o <<" ">>
    \o requirement \o <<" ">> \o dependency \o <<",", " ">> \o W(<<"which", "is", "missing!">>)

\* Mod 'Foo' (foo) requires any version of Bar Lib, which is missing!
UnversionedDepLine ==
  DepLine(<<"Foo">>, "foo", <<>>, W(<<"requires", "any", "version", "of">>), W(<<"Bar", "Lib">>))

\* Mod 'Foo' (foo) 1.0 requires any version of Bar Lib, which is missing!
DepAnyLine ==
  DepLine(<<"Foo">>, "foo", <<" ", "1.0">>, W(<<"requires", "any", "version", "of">>),
          W(<<"Bar", "Lib">>))

\* Mod 'Baz' (baz) 2.1 requires any version between 1.0 and 2.0 of Qux, which is missing!
DepBetweenLine ==
  DepLine(<<"Baz">>, "baz", <<" ", "2.1">>,
          W(<<"requires", "any", "version", "between", "1.0", "and", "2.0", "of">>), <<"Qux">>)

\* Mod 'Quux' (quux) 3.0 requires version 0.5 or later of Corge, which is missing!
DepOrLaterLine ==
  DepLine(<<"Quux">>, "quux", <<" ", "3.0">>,
          W(<<"requires", "version", "0.5", "or", "later", "of">>), <<"Corge">>)

InjectionLine ==
  W(<<"InvalidInjectionException:", "Critical", "injection", "failure:", "@Inject",
      "annotation", "on", "onTick", "could", "not", "find", "any", "targets", "matching">>)
    \o <<" ", "'", "tick", "'", " ", "in", " ", "net.minecraft.Foo", ".", " ", "Using", " ",
         "refmap", " ", "mymod-refmap.json", " ", "[", "PREINJECT", " ", "Applicator", " ",
         "Phase", " ", "->", " ", "mymod.mixins.json", ":", "FooMixin", " ", "from", " ",
         "mod", " ", "mymod", "]">>

AccessorLine ==
  W(<<"InvalidAccessorException:", "No", "candidates", "were", "found", "matching",
      "field_1", "in", "net.minecraft.Bar", "for">>)
    \o <<" ", "othermod.mixins.json", ":", "BarMixin", " ", "from", " ", "mod", " ",
         "othermod", "]">>

MixinApplyLine ==
  <<"MixinApplyError:", " ", "Mixin", " ", "[", "thirdmod", ".mixins.json", ":", "BazMixin",
    " ", "from", " ", "mod", " ", "thirdmod", "]", " ", "from", " ", "phase", " ", "[",
    "DEFAULT", "]", " ", "in", " ", "config", " ", "[", "thirdmod", ".mixins.json", "]", " ",
    "FAILED", " ", "during", " ", "APPLY">>

EntrypointLine ==
  W(<<"RuntimeException:", "Could", "not", "execute", "entrypoint", "stage">>)
    \o <<" ", "'", "main", "'", " ">> \o W(<<"due", "to", "errors,", "provided", "by">>)
    \o <<" ", "'", "fourthmod", "'", "!">>

\* - Replace 'Java' (java) 8 with version 21 or later.
JavaReplaceLine ==
  <<"-", " ", "Replace", " ", "'", "Java", "'", " ", "(", "java", ")", " ", "8", " ", "with",
    " ", "version", " ", "21", " ", "or", " ", "later", ".">>

ClassVersionLine(compiled, recognized) ==
  <<"UnsupportedClassVersionError:", " ", "net/minecraft/client/main/Main", " ">>
    \o W(<<"has", "been", "compiled", "by", "a", "more", "recent", "version", "of", "the",
           "Java", "Runtime">>)
    \o <<" ", "(">> \o W(<<"class", "file", "version">>) \o <<" ", compiled, ")", ",", " ">>
    \o W(<<"this", "version", "of", "the", "Java", "Runtime", "only", "recognizes", "class",
           "file", "versions", "up", "to">>)
    \o <<" ", recognized>>

NoSuchFieldLine == <<"java.lang.NoSuchFieldError", ":", " ", "field_1">>

OptiIncompatibleLine ==
  <<"Mod", " ", "'", "Sodium", "'", " ", "(", "sodium", ")", " ", "0.5", " ">>
    \o W(<<"is", "incompatible", "with", "any", "version", "of", "mod">>)
    \o <<" ", "'", "OptiFabric", "'", " ", "(", "optifabric", ")", "!">>

OptiPackageLine == <<"at", " ", "me.modmuss50.optifabric", ".mod.OptifabricSetup">>

IndiumLine ==
  W(<<"NullPointerException:", "Cannot", "invoke", "\"Renderer.meshBuilder()\"", "because",
      "the", "return", "value", "of">>)
    \o <<" ", "\"", "net.fabricmc.fabric.api.renderer.v1.RendererAccess.getRenderer()", "\"",
         " ", "is", " ", "null">>

\* a crash report head up to the line after the description, not yet ended by "\n"
CrashReportOpen ==
  << <<"----", " ", "Minecraft", " ", "Crash", " ", "Report", " ", "----">>,
     <<"//", " ", "Oops", ".">>,
     <<>>,
     <<"Time:", " ", "2024-01-01">>,
     <<"Description:", " ", "Initializing", " ", "game">>,
     <<>>,
     <<"java.lang.NullPointerException:", " ", "boom">> >>

\* the same with its last line ended by "\n"
CrashReportClosed == CrashReportOpen \o << <<>> >>

\* what a log text is made of: single lines and runs of lines
Fragments ==
  { <<l>> : l \in {NoiseLine, UnversionedDepLine, DepAnyLine, DepBetweenLine, DepOrLaterLine,
                   InjectionLine, AccessorLine, MixinApplyLine, EntrypointLine,
                   JavaReplaceLine, ClassVersionLine("61.0", "52.0"),
                   ClassVersionLine("66.0", "52.0"), NoSuchFieldLine, OptiIncompatibleLine,
                   OptiPackageLine, IndiumLine} }
    \cup {CrashReportOpen, CrashReportClosed}

\* the lines of a sequence of fragments
Flatten(fs) ==
  LET lines[i \in 0..Len(fs)] == IF i = 0 THEN <<>> ELSE lines[i - 1] \o fs[i]
  IN  lines[Len(fs)]

\* the texts made of at most n fragments
LogsOf(n) == {Flatten(fs) : fs \in UNION {[1..k -> Fragments] : k \in 0..n}}

\* the log texts checked: every sequence of fragments, and every
\* UnsupportedClassVersionError line over the version tokens
Logs ==
  LogsOf(MaxFragments)
    \cup { <<ClassVersionLine(v1, v2)>> : v1 \in VersionTokens, v2 \in VersionTokens }

\* the log texts checked with every context
ShortLogs == LogsOf(MaxFragments - 1)

AllLines == UNION {Range(text) : text \in Logs}

\* the parts that start a regex, and those that follow a "\n"
FirstParts == {re[1] : re \in AllRegexes}

LaterParts == UNION {{re[i] : i \in 2..Len(re)} : re \in AllRegexes}

(***************************************************************************)
(* Regex::captures on a log text.  No class and no literal of the patterns *)
(* matches "\n", so a part matches inside one line; the matches of every   *)
(* part in every line are tabulated once.                                  *)
(***************************************************************************)
FindTable == [p \in FirstParts |-> [l \in AllLines |-> MatchFind(p, l)]]

AtTable == [p \in LaterParts |-> [l \in AllLines |-> MatchAt(p, l)]]

\* the captures of part i of re when the match starts in line j of text
PartCaptures(re, text, j, i) ==
  IF j + i - 1 > Len(text) THEN None
  ELSE IF i = 1 THEN FindTable[re[1]][text[j]]
  ELSE AtTable[re[i]][text[j + i - 1]]

\* for every line of text, the captures of every part of re when the match
\* starts in that line
PartRows(re, text) ==
  [j \in 1..Len(text) |-> [i \in 1..Len(re) |-> PartCaptures(re, text, j, i)]]

\* group g of a match, given the captures of its parts: None if the group took
\* no part in the match
GroupOf(row, g) ==
  LET with == {i \in DOMAIN row : row[i][1][g] # None}
  IN  IF with = {} THEN None ELSE row[Min(with)][1][g]

\* the leftmost line where every part matches, if any
Leftmost(rows) ==
  LET js == {j \in DOMAIN rows : \A i \in DOMAIN rows[j] : rows[j][i] # None}
  IN  IF js = {} THEN None
      ELSE Some(<<GroupOf(rows[Min(js)], 1), GroupOf(rows[Min(js)], 2)>>)

\* the leftmost match of re in text: None, or Some(<<group 1, group 2>>)
captures(re, text) == Leftmost(PartRows(re, text))

\* the first element of a sequence of options that is not None, if any
FirstSome(options) ==
  LET hits == {i \in DOMAIN options : options[i] # None}
  IN  IF hits = {} THEN None ELSE options[Min(hits)]

\* grab_all!(log, re_1, ..., re_n): the captures of the first pattern, in the
\* order given, that matches the text
grab_all(text, res) == FirstSome([i \in DOMAIN res |-> captures(res[i], text)])

\* the text of group 1 of a match, if there is a match and a group 1
GroupOneText(c) ==
  IF c = None THEN None
  ELSE Some(IF c[1][1] = None THEN None ELSE Some(as_str(c[1][1][1])))

\* grab!(log, re_1, ..., re_n): Some(the text of group 1, if any) of the first
\* pattern that matches
grab(text, res) == GroupOneText(grab_all(text, res))

\* Captures::get(i)
get(caps, i) == caps[1][i]

\* an unwinding panic with its message, in place of a rule's result
Panic(msg) == <<"panic", msg>>

IsPanic(result) == Len(result) = 2

(***************************************************************************)
(* EnvironmentContext.                                                     *)
(***************************************************************************)
Launchers == {"PolyMC", "Prism"}

ModIds == {"bclib", "optifabric"}

\* known_mods is modelled by its set of keys
Contexts ==
  [launcher : {None} \cup {Some(l) : l \in Launchers},
   known_mods : (SUBSET ModIds) \cup {{"BCLib", "OptiFabric"}}]

\* unknown launcher, no known mods
DefaultContext == [launcher |-> None, known_mods |-> {}]

(***************************************************************************)
(* The rules.                                                              *)
(***************************************************************************)
CheckReport(title, description, severity) ==
  [title |-> title, description |-> description, severity |-> severity]

\* the report of crash_report_analysis for the captures of its pattern
crash_report_analysis_report(caps) ==
  IF caps # None THEN
    IF get(caps, 1) = None THEN Panic("Regex err")
    ELSE IF get(caps, 2) = None THEN Panic("Regex err 2")
    ELSE LET description == as_str(get(caps, 1)[1])
             error == as_str(get(caps, 2)[1])
         IN  Some(CheckReport("Crash report analysis",
                              "Context: " \o Tick \o description \o Tick \o "\n" \o Tick \o Tick \o Tick \o "\n" \o error \o "\n" \o Tick \o Tick \o Tick,
                              "None"))
  ELSE None

crash_report_analysis(text, env) ==
  crash_report_analysis_report(grab_all(text, <<CrashReportRe>>))

\* dependency_generic_report with the two groups exchanged
dependency_generic_report_swapped(caps) ==
  IF caps # None THEN
    Some(CheckReport("Missing dependency",
                     "The " \o Tick \o as_str(get(caps, 2)[1]) \o Tick \o " mod needs " \o Tick
                       \o as_str(get(caps, 1)[1])
                       \o Tick \o " to be installed, but it is missing.",
                     "High"))
  ELSE None

\* the report of dependency_generic for the captures of its patterns
dependency_generic_report(caps) ==
  IF caps # None THEN
    IF get(caps, 1) = None THEN Panic("Regex err")
    ELSE IF get(caps, 2) = None THEN Panic("Regex err 2")
    ELSE LET dependent == as_str(get(caps, 1)[1])
             dependency == as_str(get(caps, 2)[1])
         IN  Some(CheckReport("Missing dependency",
                              "The " \o Tick \o dependent \o Tick \o " mod needs " \o Tick \o dependency
                                \o Tick \o " to be installed, but it is missing.",
                              "High"))
  ELSE None

\* dependency_generic with its patterns tried in the reverse order
dependency_generic_reversed(text, env) ==
  dependency_generic_report(grab_all(text, <<DepAnyRe, DepOrLaterRe, DepBetweenRe>>))

dependency_generic(text, env) ==
  dependency_generic_report(grab_all(text, <<DepBetweenRe, DepOrLaterRe, DepAnyRe>>))

\* crash_generic_report with the entrypoint sub-check tried first
crash_generic_report_entry_first(caps, applied, entry) ==
  IF entry # None /\ entry[1] # None THEN
    Some(CheckReport("Entrypoint error",
                     "The mod " \o Tick \o entry[1][1]
                       \o Tick \o " has encountered an error in it's entrypoint, though it may not have caused it. Further investigation is required.",
                     "High"))
  ELSE IF caps # None THEN
    Some(CheckReport("Mixin inject failed",
                     "Mixin " \o Tick \o as_str(get(caps, 1)[1]) \o Tick \o " from mod " \o Tick
                       \o as_str(get(caps, 2)[1])
                       \o Tick \o " has failed. It is possible that " \o Tick
                       \o as_str(get(caps, 2)[1])
                       \o Tick \o " is not compatible with this Minecraft version, consider double-checking its version.",
                     "High"))
  ELSE IF applied # None /\ applied[1] # None THEN
    Some(CheckReport("Mixin error",
                     "The mod " \o Tick \o applied[1][1]
                       \o Tick \o " has encountered a mixin error, this may be caused by a mismatch in Minecraft version or a mod incompatibility. Further investigation is required.",
                     "High"))
  ELSE None

\* the report of crash_generic for the results of its three sub-checks, each
\* evaluated only if the ones before it gave nothing
crash_generic_report(caps, applied, entry) ==
  IF caps # None THEN
    IF get(caps, 1) = None THEN Panic("Regex err")
    ELSE IF get(caps, 2) = None THEN Panic("Regex err 2")
    ELSE LET mixin == as_str(get(caps, 1)[1])
             mod_id == as_str(get(caps, 2)[1])
         IN  Some(CheckReport("Mixin inject failed",
                              "Mixin " \o Tick \o mixin \o Tick \o " from mod " \o Tick \o mod_id
                                \o Tick \o " has failed. It is possible that " \o Tick \o mod_id
                                \o Tick \o " is not compatible with this Minecraft version, consider double-checking its version.",
                              "High"))
  ELSE IF applied # None /\ applied[1] # None THEN
    Some(CheckReport("Mixin error",
                     "The mod " \o Tick \o applied[1][1]
                       \o Tick \o " has encountered a mixin error, this may be caused by a mismatch in Minecraft version or a mod incompatibility. Further investigation is required.",
                     "High"))
  ELSE IF entry # None /\ entry[1] # None THEN
    Some(CheckReport("Entrypoint error",
                     "The mod " \o Tick \o entry[1][1]
                       \o Tick \o " has encountered an error in it's entrypoint, though it may not have caused it. Further investigation is required.",
                     "High"))
  ELSE None

crash_generic(text, env) ==
  crash_generic_report(grab_all(text, <<InjectionRe, AccessorRe>>),
                       grab(text, <<MixinApplyRe>>),
                       grab(text, <<EntrypointRe>>))

\* match_java_classfile_version with the label of 58.0 repeated from the arm
\* above it
match_java_classfile_version_repeated(classfile_version) ==
  CASE classfile_version = "49.0" -> Some("5")
    [] classfile_version = "50.0" -> Some("6")
    [] classfile_version = "51.0" -> Some("7")
    [] classfile_version = "52.0" -> Some("8")
    [] classfile_version = "53.0" -> Some("9")
    [] classfile_version = "54.0" -> Some("10")
    [] classfile_version = "55.0" -> Some("11")
    [] classfile_version = "56.0" -> Some("12")
    [] classfile_version = "57.0" -> Some("13")
    [] classfile_version = "58.0" -> Some("13")
    [] classfile_version = "59.0" -> Some("15")
    [] classfile_version = "60.0" -> Some("16")
    [] classfile_version = "61.0" -> Some("17")
    [] classfile_version = "62.0" -> Some("18")
    [] classfile_version = "63.0" -> Some("19")
    [] classfile_version = "64.0" -> Some("20")
    [] classfile_version = "65.0" -> Some("21")
    [] OTHER -> None

match_java_classfile_version(classfile_version) ==
  CASE classfile_version = "49.0" -> Some("5")
    [] classfile_version = "50.0" -> Some("6")
    [] classfile_version = "51.0" -> Some("7")
    [] classfile_version = "52.0" -> Some("8")
    [] classfile_version = "53.0" -> Some("9")
    [] classfile_version = "54.0" -> Some("10")
    [] classfile_version = "55.0" -> Some("11")
    [] classfile_version = "56.0" -> Some("12")
    [] classfile_version = "57.0" -> Some("13")
    [] classfile_version = "58.0" -> Some("14")
    [] classfile_version = "59.0" -> Some("15")
    [] classfile_version = "60.0" -> Some("16")
    [] classfile_version = "61.0" -> Some("17")
    [] classfile_version = "62.0" -> Some("18")
    [] classfile_version = "63.0" -> Some("19")
    [] classfile_version = "64.0" -> Some("20")
    [] classfile_version = "65.0" -> Some("21")
    [] OTHER -> None

\* the description naming both Java versions
JavaVersionsMessage(need, has) ==
  "A mod or Minecraft itself requires Java " \o need
    \o " to be used, but an older version, Java " \o has
    \o " is being used instead. You may have to [download](https://adoptium.net/temurin/releases/?version="
    \o need \o ") a newer Java version and/or select it in your launcher."

\* the description naming none
JavaGenericMessage ==
  "A mod or Minecraft itself requires a different version of Java from the one that is available. You may have to [download](https://adoptium.net/temurin/releases/) a newer Java version and/or select it in your launcher."

\* java_report giving no report when a class-file version is not in the table
java_report_suppressing(replaced, unsupported) ==
  IF replaced # None THEN
    Some(CheckReport("Incorrect Java version",
                     JavaVersionsMessage(as_str(get(replaced, 2)[1]), as_str(get(replaced, 1)[1])),
                     "High"))
  ELSE IF unsupported # None THEN
    LET has == match_java_classfile_version(as_str(get(unsupported, 2)[1]))
        need == match_java_classfile_version(as_str(get(unsupported, 1)[1]))
    IN  IF has # None /\ need # None
        THEN Some(CheckReport("Incorrect Java version", JavaVersionsMessage(need[1], has[1]),
                              "High"))
        ELSE None
  ELSE None

\* java_report reading the present version from group 1 and the required one
\* from group 2 of the UnsupportedClassVersionError pattern
java_report_reversed(replaced, unsupported) ==
  IF replaced # None THEN
    Some(CheckReport("Incorrect Java version",
                     JavaVersionsMessage(as_str(get(replaced, 2)[1]), as_str(get(replaced, 1)[1])),
                     "High"))
  ELSE IF unsupported # None THEN
    LET has == match_java_classfile_version(as_str(get(unsupported, 1)[1]))
        need == match_java_classfile_version(as_str(get(unsupported, 2)[1]))
    IN  Some(CheckReport("Incorrect Java version",
                         IF has # None /\ need # None
                         THEN JavaVersionsMessage(need[1], has[1])
                         ELSE JavaGenericMessage,
                         "High"))
  ELSE None

\* the report of java for the captures of its two patterns, the second
\* evaluated only if the first gave nothing
java_report(replaced, unsupported) ==
  IF replaced # None THEN
    IF get(replaced, 1) = None THEN Panic("Regex err")
    ELSE IF get(replaced, 2) = None THEN Panic("Regex err 2")
    ELSE LET has == as_str(get(replaced, 1)[1])
             need == as_str(get(replaced, 2)[1])
         IN  Some(CheckReport("Incorrect Java version", JavaVersionsMessage(need, has), "High"))
  ELSE IF unsupported # None THEN
    IF get(unsupported, 2) = None THEN Panic("Regex err")
    ELSE IF get(unsupported, 1) = None THEN Panic("Regex err 2")
    ELSE LET has == match_java_classfile_version(as_str(get(unsupported, 2)[1]))
             need == match_java_classfile_version(as_str(get(unsupported, 1)[1]))
         IN  Some(CheckReport("Incorrect Java version",
                              IF has # None /\ need # None
                              THEN JavaVersionsMessage(need[1], has[1])
                              ELSE JavaGenericMessage,
                              "High"))
  ELSE None

java(text, env) ==
  java_report(grab_all(text, <<JavaReplaceRe>>), grab_all(text, <<ClassVersionRe>>))

missing_field(text, env) ==
  IF grab(text, <<NoSuchFieldRe>>) # None THEN
    Some(CheckReport("Field missing error",
                     "On the logical server some fields may be deleted by Fabric Loader when a mod defines them as client-only. Since this feature was broken before loader " \o Tick \o "0.15" \o Tick \o ", some mods may have implemented it incorrectly. See if there's an update for the mod in question, or try downgrading Fabric Loader.",
                     "High"))
  ELSE None

\* polymc firing for every launcher that was recognised
polymc_any_launcher(text, env) ==
  IF env.launcher # None THEN
    Some(CheckReport("PolyMC Detected",
                     "PolyMC is an outdated launcher maintained by a queerphobic team. Consider switching to [Prism Launcher](https://prismlauncher.org/), a fork with more features and better support.",
                     "Medium"))
  ELSE None

polymc(text, env) ==
  IF env.launcher = Some("PolyMC") THEN
    Some(CheckReport("PolyMC Detected",
                     "PolyMC is an outdated launcher maintained by a queerphobic team. Consider switching to [Prism Launcher](https://prismlauncher.org/), a fork with more features and better support.",
                     "Medium"))
  ELSE None

optifabric(text, env) ==
  IF \/ \E m \in env.known_mods : m = "optifabric"
     \/ grab(text, <<OptiIncompatibleRe, OptiPackageRe>>) # None
  THEN
    Some(CheckReport("OptiFabric detected",
                     "Optifine is known to cause problems with many mods on Fabric. If you're having strange issues or crashes, consider replacing it with some of the many available [alternatives](https://lambdaurora.dev/optifine_alternatives/).",
                     "High"))
  ELSE None

\* bclib looking up the key of the rule above it
bclib_other_key(text, env) ==
  IF \E m \in env.known_mods : m = "optifabric" THEN
    Some(CheckReport("BCLib detected",
                     "BCLib is known to cause issues with some mods. If you're experiencing crashes or other problems, consider trying without it.",
                     "Medium"))
  ELSE None

bclib(text, env) ==
  IF \E m \in env.known_mods : m = "bclib" THEN
    Some(CheckReport("BCLib detected",
                     "BCLib is known to cause issues with some mods. If you're experiencing crashes or other problems, consider trying without it.",
                     "Medium"))
  ELSE None

indium(text, env) ==
  IF grab(text, <<IndiumRe>>) # None THEN
    Some(CheckReport("Missing Indium",
                     "A mod is trying to make use of Fabric Rendering API, which may be missing when rendering mods such as Sodium are loaded. If you use Sodium, install [Indium](https://modrinth.com/mod/indium) to resolve this.",
                     "High"))
  ELSE None

(***************************************************************************)
(* check_checks: the catalogue, run by filter_map and collected.           *)
(***************************************************************************)
\* the catalogue with optifabric moved to the front
CatalogueOptifabricFirst ==
  <<"optifabric", "crash_report_analysis", "dependency_generic", "crash_generic", "java",
    "missing_field", "polymc", "bclib", "indium">>

Catalogue ==
  <<"crash_report_analysis", "dependency_generic", "crash_generic", "java", "missing_field",
    "polymc", "optifabric", "bclib", "indium">>

\* check(log, ctx) of the closure
Call(check, l, c) ==
  CASE check = "crash_report_analysis" -> crash_report_analysis(l, c)
    [] check = "dependency_generic" -> dependency_generic(l, c)
    [] check = "crash_generic" -> crash_generic(l, c)
    [] check = "java" -> java(l, c)
    [] check = "missing_field" -> missing_field(l, c)
    [] check = "polymc" -> polymc(l, c)
    [] check = "optifabric" -> optifabric(l, c)
    [] check = "bclib" -> bclib(l, c)
    [] check = "indium" -> indium(l, c)

\* check_checks is called with a text and a context: every text with the
\* default context, the shorter texts with every context (eight rules read
\* the text or the context only; optifabric, which reads both, meets each of
\* its text signatures with every context among the shorter texts)
Init ==
  /\ \/ log \in Logs /\ ctx = DefaultContext
     \/ log \in ShortLogs /\ ctx \in Contexts
  /\ pc = "running"
  /\ iter = 1
  /\ reports = <<>>
  /\ calls = <<>>

\* one step of filter_map: invoke the next rule and keep its report, if any
FilterMapNext ==
  /\ pc = "running"
  /\ iter <= Len(Catalogue)
  /\ \E result \in {Call(Catalogue[iter], log, ctx)} :
       /\ pc' = IF IsPanic(result) THEN "panicked" ELSE pc
       /\ reports' = IF IsPanic(result) THEN <<>> ELSE reports \o result
  /\ iter' = iter + 1
  /\ calls' = Append(calls, Catalogue[iter])
  /\ UNCHANGED <<log, ctx>>

\* the iterator is exhausted: collect() returns the Vec
Collect ==
  /\ pc = "running"
  /\ iter > Len(Catalogue)
  /\ pc' = "done"
  /\ UNCHANGED <<log, ctx, iter, reports, calls>>

Next == FilterMapNext \/ Collect

Spec == Init /\ [][Next]_vars

(***************************************************************************)
(* What the properties below speak about.                                  *)
(***************************************************************************)
\* the patterns each rule hands to its matcher calls, in the order tried
RulePatterns ==
  [crash_report_analysis |-> <<CrashReportRe>>,
   dependency_generic |-> <<DepBetweenRe, DepOrLaterRe, DepAnyRe>>,
   crash_generic |-> <<InjectionRe, AccessorRe, MixinApplyRe, EntrypointRe>>,
   java |-> <<JavaReplaceRe, ClassVersionRe>>,
   missing_field |-> <<NoSuchFieldRe>>,
   polymc |-> <<>>,
   optifabric |-> <<OptiIncompatibleRe, OptiPackageRe>>,
   bclib |-> <<>>,
   indium |-> <<IndiumRe>>]

\* the titles of the reports each rule can give
RuleTitles ==
  [crash_report_analysis |-> {"Crash report analysis"},
   dependency_generic |-> {"Missing dependency"},
   crash_generic |-> {"Mixin inject failed", "Mixin error", "Entrypoint error"},
   java |-> {"Incorrect Java version"},
   missing_field |-> {"Field missing error"},
   polymc |-> {"PolyMC Detected"},
   optifabric |-> {"OptiFabric detected"},
   bclib |-> {"BCLib detected"},
   indium |-> {"Missing Indium"}]

\* the returned reports whose title is one of titles, in the order returned
Titled(titles) == SelectSeq(reports, LAMBDA r : r.title \in titles)

\* the titles of the returned reports, in the order returned
Titles == [i \in DOMAIN reports |-> reports[i].title]

\* the pattern matches somewhere in the text checked
Matches(re) == captures(re, log) # None

\* none of the rule's patterns matches the text checked
NoPatternMatches(rule) ==
  \A i \in DOMAIN RulePatterns[rule] : ~Matches(RulePatterns[rule][i])

\* the context holds what the rule looks up in it
ContextSignal(rule) ==
  CASE rule = "polymc" -> ctx.launcher = Some("PolyMC")
    [] rule = "optifabric" -> "optifabric" \in ctx.known_mods
    [] rule = "bclib" -> "bclib" \in ctx.known_mods
    [] OTHER -> FALSE

\* the first pattern of res, in the order given, that matches the text checked
FirstMatching(res) ==
  LET hits == {i \in DOMAIN res : Matches(res[i])}
  IN  IF hits = {} THEN None ELSE Some(res[Min(hits)])

\* the text is made of the given lines only, and holds the line asked for
MadeOf(line, others) == line \in Range(log) /\ Range(log) \subseteq ({line} \cup others)

(***************************************************************************)
(* C1.  check_checks invokes the nine rules once each, in the declared     *)
(* order, and returns exactly the reports of the rules that gave one, in   *)
(* that order; a text with a missing-dependency signature and an           *)
(* OptiFabric signature gets "Missing dependency" before "OptiFabric       *)
(* detected".                                                              *)
(***************************************************************************)
C1_CatalogueOrder ==
  /\ calls = SubSeq(<<"crash_report_analysis", "dependency_generic", "crash_generic", "java",
                      "missing_field", "polymc", "optifabric", "bclib", "indium">>,
                    1, Len(calls))
  /\ pc = "done" =>
       /\ Len(calls) = 9
       /\ reports = crash_report_analysis(log, ctx) \o dependency_generic(log, ctx)
                      \o crash_generic(log, ctx) \o java(log, ctx) \o missing_field(log, ctx)
                      \o polymc(log, ctx) \o optifabric(log, ctx) \o bclib(log, ctx)
                      \o indium(log, ctx)
       /\ (~NoPatternMatches("dependency_generic") /\ ~NoPatternMatches("optifabric")) =>
            \E i, j \in DOMAIN reports :
              /\ i < j
              /\ reports[i].title = "Missing dependency"
              /\ reports[j].title = "OptiFabric detected"

C1_Witness ==
  /\ pc = "done"
  /\ log = <<OptiPackageLine, DepAnyLine>>
  /\ ctx = DefaultContext
  /\ Titles = <<"Missing dependency", "OptiFabric detected">>

(***************************************************************************)
(* The capture groups a rule reads are part of every alternative of its    *)
(* patterns, so no text makes a rule read an absent group: no run of       *)
(* check_checks unwinds.                                                   *)
(***************************************************************************)
NeverPanics == pc # "panicked"

(***************************************************************************)
(* C3, as stated.  A rule none of whose patterns matches the text gives no *)
(* report, whatever the context.                                           *)
(***************************************************************************)
C3_NoMatchNoReport ==
  pc = "done" =>
    \A rule \in Range(Catalogue) :
      NoPatternMatches(rule) => Titled(RuleTitles[rule]) = <<>>

(***************************************************************************)
(* C3, amended.  A rule none of whose patterns matches the text gives no   *)
(* report unless the context holds what the rule looks up in it: the       *)
(* launcher PolyMC for polymc, the key "optifabric" for optifabric, the    *)
(* key "bclib" for bclib.  The six other rules give none whatever the      *)
(* context.                                                                *)
(***************************************************************************)
C3_NoSignalNoReport ==
  pc = "done" =>
    \A rule \in Range(Catalogue) :
      (NoPatternMatches(rule) /\ ~ContextSignal(rule)) => Titled(RuleTitles[rule]) = <<>>

C3_Witness ==
  /\ pc = "done"
  /\ log = <<NoiseLine>>
  /\ ctx = [launcher |-> Some("Prism"), known_mods |-> {"BCLib", "OptiFabric"}]
  /\ reports = <<>>

(***************************************************************************)
(* C4, as stated.  A text that holds the line                              *)
(*   Mod 'Foo' (foo) requires any version of Bar Lib, which is missing!    *)
(* and no other known signature, checked with an unknown launcher and no   *)
(* known mods, gets exactly one report: "Missing dependency", High, its    *)
(* description naming Foo and Bar Lib.                                     *)
(***************************************************************************)
C4_UnversionedLineReported ==
  (pc = "done" /\ ctx = DefaultContext /\ MadeOf(UnversionedDepLine, {NoiseLine})) =>
    /\ Len(reports) = 1
    /\ reports[1].title = "Missing dependency"
    /\ reports[1].severity = "High"
    /\ reports[1].description
         = "The " \o Tick \o "Foo" \o Tick \o " mod needs " \o Tick \o "Bar Lib" \o Tick
             \o " to be installed, but it is missing."

(***************************************************************************)
(* C4, amended.  The same for the line that gives the dependent's version  *)
(* after its id, as the patterns of dependency_generic require:            *)
(*   Mod 'Foo' (foo) 1.0 requires any version of Bar Lib, which is missing!*)
(***************************************************************************)
C4_VersionedLineReported ==
  (pc = "done" /\ ctx = DefaultContext /\ MadeOf(DepAnyLine, {NoiseLine})) =>
    /\ Len(reports) = 1
    /\ reports[1].title = "Missing dependency"
    /\ reports[1].severity = "High"
    /\ reports[1].description
         = "The " \o Tick \o "Foo" \o Tick \o " mod needs " \o Tick \o "Bar Lib" \o Tick
             \o " to be installed, but it is missing."

C4_Witness ==
  /\ pc = "done"
  /\ ctx = DefaultContext
  /\ log = <<NoiseLine, DepAnyLine>>
  /\ Titles = <<"Missing dependency">>

(***************************************************************************)
(* C5.  Where a rule hands several patterns to one matcher call, the       *)
(* report is built from the captures of the first pattern, in the declared *)
(* order, that matches the text, also when a later pattern matches too     *)
(* (dependency_generic: between, or-later, any; the first check of         *)
(* crash_generic: injection, accessor), and the call gives nothing only    *)
(* when no pattern matches (those two and the text check of optifabric).   *)
(***************************************************************************)
C5_FirstMatchWins ==
  pc = "done" =>
    /\ \E first \in {FirstMatching(<<DepBetweenRe, DepOrLaterRe, DepAnyRe>>)} :
         Titled({"Missing dependency"})
           = IF first = None THEN <<>> ELSE dependency_generic_report(captures(first[1], log))
    /\ \E first \in {FirstMatching(<<InjectionRe, AccessorRe>>)} :
         Titled({"Mixin inject failed"})
           = IF first = None THEN <<>>
             ELSE crash_generic_report(captures(first[1], log), None, None)
    /\ "optifabric" \notin ctx.known_mods =>
         (Titled({"OptiFabric detected"}) = <<>>
            <=> FirstMatching(<<OptiIncompatibleRe, OptiPackageRe>>) = None)

C5_Witness ==
  /\ pc = "done"
  /\ log = <<DepAnyLine, DepBetweenLine>>
  /\ Matches(DepAnyRe)
  /\ Matches(DepBetweenRe)
  /\ Len(reports) = 1
  /\ reports[1].description
       = "The " \o Tick \o "Baz" \o Tick \o " mod needs " \o Tick \o "Qux" \o Tick
           \o " to be installed, but it is missing."

(***************************************************************************)
(* C6.  crash_generic gives at most one report, chosen by the order of its *)
(* sub-checks: "Mixin inject failed" if an injection or accessor pattern   *)
(* matches, else "Mixin error" if the MixinApplyError pattern matches,     *)
(* else "Entrypoint error" if the entrypoint pattern matches, else none.   *)
(***************************************************************************)
C6_OneCrashReport ==
  pc = "done" =>
    [i \in DOMAIN Titled(RuleTitles["crash_generic"]) |->
       Titled(RuleTitles["crash_generic"])[i].title]
      = IF Matches(InjectionRe) \/ Matches(AccessorRe) THEN <<"Mixin inject failed">>
        ELSE IF Matches(MixinApplyRe) THEN <<"Mixin error">>
        ELSE IF Matches(EntrypointRe) THEN <<"Entrypoint error">>
        ELSE <<>>

C6_Witness ==
  /\ pc = "done"
  /\ log = <<EntrypointLine, MixinApplyLine>>
  /\ Matches(EntrypointRe)
  /\ Titles = <<"Mixin error">>

(***************************************************************************)
(* The java rule on the text checked.                                      *)
(***************************************************************************)
\* the text of both groups of a match
GroupTexts(caps) == <<as_str(caps[1][1][1]), as_str(caps[1][2][1])>>

\* the two class-file versions the UnsupportedClassVersionError pattern captures
\* in the text checked: <<compiled for, recognized up to>>
CapturedVersions == GroupTexts(captures(ClassVersionRe, log))

\* the class-file version is N.0 for an N of the table
InTable(version) == \E n \in FirstClassfile..LastClassfile : version = Classfile(n)

\* the Java label of the class-file version N.0: N - 44
LabelOf(version) ==
  Dec((CHOOSE n \in FirstClassfile..LastClassfile : version = Classfile(n)) - 44)

\* the reports of the java rule among those returned
JavaReports == Titled(RuleTitles["java"])

(***************************************************************************)
(* C7.  match_java_classfile_version gives, for every class-file version   *)
(* N.0 with N in 49..65, the label N - 44, different versions getting      *)
(* different labels, and None for every other input, and then the java     *)
(* rule reports with the generic message instead of unwinding.             *)
(***************************************************************************)
C7_VersionTable ==
  (pc = "done" /\ Matches(ClassVersionRe)) =>
    \A versions \in {CapturedVersions} :
      /\ \A g \in 1..2 :
           match_java_classfile_version(versions[g])
             = IF InTable(versions[g]) THEN Some(LabelOf(versions[g])) ELSE None
      /\ (InTable(versions[1]) /\ InTable(versions[2]) /\ versions[1] # versions[2]) =>
           match_java_classfile_version(versions[1]) # match_java_classfile_version(versions[2])
      /\ ((~InTable(versions[1]) \/ ~InTable(versions[2])) /\ ~Matches(JavaReplaceRe)) =>
           /\ Len(JavaReports) = 1
           /\ JavaReports[1].description = JavaGenericMessage

C7_Witness ==
  /\ pc = "done"
  /\ log = <<ClassVersionLine("65.0", "49.0")>>
  /\ CapturedVersions = <<"65.0", "49.0">>
  /\ Len(reports) = 1
  /\ reports[1].description = JavaVersionsMessage("21", "5")

(***************************************************************************)
(* C8, as stated.  Whenever the UnsupportedClassVersionError pattern       *)
(* matches, the java rule gives exactly one report, "Incorrect Java        *)
(* version", High, and when either captured class-file version has no      *)
(* translation its description is the generic message.                     *)
(***************************************************************************)
C8_GenericOnLookupMiss ==
  (pc = "done" /\ Matches(ClassVersionRe)) =>
    /\ Len(JavaReports) = 1
    /\ JavaReports[1].severity = "High"
    /\ (\E g \in 1..2 : match_java_classfile_version(CapturedVersions[g]) = None) =>
         JavaReports[1].description = JavaGenericMessage

(***************************************************************************)
(* C8, amended.  The same, the description being the generic message when  *)
(* moreover the pattern the rule tries first, "- Replace '...' (java) N    *)
(* with version M or later.", does not match the text; when it does, the   *)
(* one report names the versions of that line.                             *)
(***************************************************************************)
C8_GenericUnlessReplace ==
  (pc = "done" /\ Matches(ClassVersionRe)) =>
    /\ Len(JavaReports) = 1
    /\ JavaReports[1].severity = "High"
    /\ ((\E g \in 1..2 : match_java_classfile_version(CapturedVersions[g]) = None)
          /\ ~Matches(JavaReplaceRe)) =>
         JavaReports[1].description = JavaGenericMessage
    /\ Matches(JavaReplaceRe) =>
         \A replaced \in {captures(JavaReplaceRe, log)} :
           JavaReports[1].description
             = JavaVersionsMessage(as_str(replaced[1][2][1]), as_str(replaced[1][1][1]))

C8_Witness ==
  /\ pc = "done"
  /\ log = <<ClassVersionLine("66.0", "52.0")>>
  /\ match_java_classfile_version(CapturedVersions[1]) = None
  /\ reports = <<CheckReport("Incorrect Java version", JavaGenericMessage, "High")>>

(***************************************************************************)
(* C9.  When the java rule matches an UnsupportedClassVersionError line    *)
(* (its first pattern does not match, that one does) and both versions     *)
(* translate, the report names the translation of group 1, the version the *)
(* class was compiled for, as the Java required and that of group 2, the   *)
(* version recognized, as the Java present: 61.0 and 52.0 give required    *)
(* 17, present 8.                                                          *)
(***************************************************************************)
C9_RequiredAndPresent ==
  (pc = "done" /\ ~Matches(JavaReplaceRe) /\ Matches(ClassVersionRe)) =>
    \A versions \in {CapturedVersions} :
      (InTable(versions[1]) /\ InTable(versions[2])) =>
        /\ Len(JavaReports) = 1
        /\ JavaReports[1].description
             = JavaVersionsMessage(LabelOf(versions[1]), LabelOf(versions[2]))
        /\ versions = <<"61.0", "52.0">> =>
             JavaReports[1].description
               = "A mod or Minecraft itself requires Java 17 to be used, but an older version, Java 8 is being used instead. You may have to [download](https://adoptium.net/temurin/releases/?version=17) a newer Java version and/or select it in your launcher."

C9_Witness ==
  /\ pc = "done"
  /\ log = <<NoiseLine, ClassVersionLine("61.0", "52.0")>>
  /\ CapturedVersions = <<"61.0", "52.0">>
  /\ Len(JavaReports) = 1
  /\ JavaReports[1].description = JavaVersionsMessage("17", "8")

(***************************************************************************)
(* C10.  For every text, when known_mods has the key "bclib", spelled so,  *)
(* the returned list holds exactly one report titled "BCLib detected", of  *)
(* severity Medium; the rule looks at the context only: without the key    *)
(* no text gets the report.                                                *)
(***************************************************************************)
C10_BclibKey ==
  pc = "done" =>
    IF "bclib" \in ctx.known_mods
    THEN /\ Len(Titled({"BCLib detected"})) = 1
         /\ Titled({"BCLib detected"})[1].severity = "Medium"
    ELSE Titled({"BCLib detected"}) = <<>>

C10_Witness ==
  /\ pc = "done"
  /\ ctx.known_mods = {"bclib"}
  /\ log = CrashReportClosed
  /\ Titles = <<"Crash report analysis", "BCLib detected">>

====
